---------------------------- MODULE Spec2Model ----------------------------
(* Model of src/client_sse.py: the MCPClient session lifecycle              *)
(* (connect_to_sse_server, cleanup), the tool-call loop (process_query),    *)
(* the interactive shell (chat_loop) and main.                              *)
(*                                                                          *)
(* Four specifications:                                                     *)
(*   Spec        main() as written: connect, chat_loop, finally cleanup.    *)
(*   SpecClient  one MCPClient object driven by an arbitrary caller that    *)
(*               calls connect_to_sse_server at most once and cleanup any   *)
(*               number of times (up to MaxCleanupCalls), in any order.     *)
(*   SpecClean   clean_schema applied, up to MaxCleanCalls times, to every  *)
(*               schema of at most MaxEntries entries.                      *)
(*   SpecConvert convert_mcp_tools_to_gemini applied to every list of at    *)
(*               most MaxTools descriptors with distinct names.             *)
(* Strings of the program (texts, queries) are sequences of symbols, so     *)
(* joining, trimming and case folding are computed, not assumed.            *)
EXTENDS Integers, Sequences, FiniteSets, TLC

(***************************************************************************)
(* Bounds                                                                  *)
(***************************************************************************)
MaxQueries == 2
MaxCandidates == 2
MaxParts == 2
MaxCleanupCalls == 2
MaxEntries == 4
MaxCleanCalls == 2
MaxTools == 2

VARIABLES
    pc,                 \* position of the single thread of control
    exc,                \* exception propagating out of the current call
    pending,            \* exception held by main's finally clause
    streams_context,    \* self._streams_context: "None" or "ctx"
    session_context,    \* self._session_context: "None" or "ctx"
    session,            \* self.session: "None" or "session"
    function_declarations, \* self.function_declarations: "unset" or names
    tEntered,           \* sse_client context: __aenter__ completed
    tExits,             \* sse_client context: number of __aexit__ calls
    sEntered,           \* ClientSession context: __aenter__ completed
    sExits,             \* ClientSession context: number of __aexit__ calls
    initialized,        \* session.initialize() completed successfully
    state,              \* lifecycle state of the Session Manager
    cleanupCalls,       \* number of cleanup() invocations begun
    cleanupFrom,        \* lifecycle state in which the latest cleanup() began
    tools,              \* connect's local: response.tools
    nQueries,           \* number of operator lines read by chat_loop
    query,              \* process_query's parameter
    candidates,         \* response.candidates being iterated (line 102)
    ci,                 \* index of the current candidate
    pi,                 \* index of the current part
    final_text,         \* process_query's accumulator
    tool_name,
    tool_args,
    function_response,
    lastRequest,        \* contents of the latest generate_content request
    toolInFlight,       \* number of call_tool awaits outstanding
    genInFlight,        \* number of generate_content calls outstanding
    toolLog,            \* call_tool invocations of the current query, with outcome
    answered,           \* tool names of the tool-result turns sent to the model
    genCount,           \* generate_content requests of the current query
    fcSeen,             \* function-call parts received in the current query
    result,             \* value returned by the latest process_query
    response,           \* process_query's local: the latest response
    linesRead,          \* the operator lines chat_loop has read, in order
    passed,             \* the arguments of the process_query calls, in order
    schemaIn,           \* a schema as given to clean_schema
    schema,             \* the same object, which clean_schema changes in place
    cleanCalls          \* number of clean_schema calls made on it

lifeVars == <<streams_context, session_context, session, function_declarations,
              tEntered, tExits, sEntered, sExits, initialized, state,
              cleanupCalls, cleanupFrom, tools>>
queryVars == <<nQueries, query, candidates, ci, pi, final_text, tool_name,
               tool_args, function_response, lastRequest, toolInFlight,
               genInFlight, toolLog, answered, genCount, fcSeen, result,
               response, linesRead, passed>>
cleanVars == <<schemaIn, schema, cleanCalls>>
vars == <<pc, exc, pending, lifeVars, queryVars, cleanVars>>

ConnectPcs == {"connect57", "connect59", "connect61", "connect62",
               "connect64", "connect68", "connect72"}
CleanupPcs == {"cleanup82", "cleanup84"}

\* An exception leaves the method that is executing.
Raise(e) ==
    /\ exc' = e
    /\ pc' = IF pc \in ConnectPcs THEN "connect_raised"
             ELSE IF pc \in CleanupPcs THEN "cleanup_raised"
             ELSE "chat_raised"

Range(f) == {f[i] : i \in DOMAIN f}

SeqsUpTo(S, n) == UNION {[1..k -> S] : k \in 0..n}

(***************************************************************************)
(* Values at the external boundaries                                       *)
(***************************************************************************)
\* tool.description of a descriptor that has none
NoDescription == <<"None">>

(***************************************************************************)
(* clean_schema                                                            *)
(***************************************************************************)
\* A JSON value of a schema: a mapping, given by its set of <<key, value>>
\* entries, or a value that is no mapping (a string, a number, a list)
Scalar(v) == [isMap |-> FALSE, value |-> v, items |-> {}]
Mapping(es) == [isMap |-> TRUE, value |-> "", items |-> es]

Scalars == {Scalar("string")}

SchemaKeys == <<"title", "properties", "items">>

\* number of entries of a schema, nested ones included
RECURSIVE Entries(_)
Entries(s) ==
    IF s.items = {} THEN 0
    ELSE LET e == CHOOSE e \in s.items : TRUE
         IN 1 + Entries(e[2]) + Entries(Mapping(s.items \ {e}))

\* the schemas over SchemaKeys with at most n entries in all
RECURSIVE SchemasUpTo(_), ItemsUpTo(_, _)
SchemasUpTo(n) == Scalars \cup {Mapping(es) : es \in ItemsUpTo(1, n)}
ItemsUpTo(k, n) ==
    IF k > Len(SchemaKeys) THEN {{}}
    ELSE ItemsUpTo(k + 1, n) \cup
         (IF n = 0 THEN {}
          ELSE UNION { { {<<SchemaKeys[k], c>>} \cup rest :
                            rest \in ItemsUpTo(k + 1, n - 1 - Entries(c)) } :
                        c \in SchemasUpTo(n - 1) })

Schemas == SchemasUpTo(MaxEntries)

\* Variant of clean_schema: 'properties' is visited only when the mapping
\* has no 'title' to remove (elif in the place of the second if)
RECURSIVE clean_schemaElif(_)
clean_schemaElif(s) ==
    IF ~s.isMap THEN s
    ELSE IF \E e \in s.items : e[1] = "title"
    THEN Mapping({e \in s.items : e[1] # "title"})
    ELSE Mapping({ IF e[1] = "properties" /\ e[2].isMap
                     THEN <<e[1], Mapping({<<q[1], clean_schemaElif(q[2])>> :
                                                q \in e[2].items})>>
                     ELSE e : e \in s.items })

\* lines 200-206: a mapping loses its 'title' entry, and when its
\* 'properties' entry is a mapping each value of that is cleaned in turn;
\* anything else is returned as it is
RECURSIVE clean_schema(_)
clean_schema(s) ==
    IF ~s.isMap THEN s
    ELSE Mapping({ IF e[1] = "properties" /\ e[2].isMap
                     THEN <<e[1], Mapping({<<q[1], clean_schema(q[2])>> :
                                                q \in e[2].items})>>
                     ELSE e : e \in {x \in s.items : x[1] # "title"} })

(***************************************************************************)
(* convert_mcp_tools_to_gemini                                             *)
(***************************************************************************)
\* inputSchema of a tool: an object schema with one titled property, and a
\* schema without properties
LocSchema ==
    Mapping({ <<"title", Scalar("Loc")>>,
              <<"properties",
                Mapping({<<"city", Mapping({<<"title", Scalar("City")>>,
                                             <<"type", Scalar("string")>>})>>})>> })

ToolSchemas == {LocSchema, Mapping({<<"type", Scalar("object")>>})}

\* the descriptors list_tools returns in a session with the server
ToolLists ==
    { <<[name |-> "add_integers", description |-> <<"Add">>,
         inputSchema |-> LocSchema]>>,
      <<[name |-> "add_integers", description |-> <<"Add">>,
         inputSchema |-> LocSchema],
        [name |-> "run_command", description |-> NoDescription,
         inputSchema |-> LocSchema]>> }

ToolNames == <<"add_integers", "run_command", "get_weather">>

Descriptions == {<<"Add">>, <<"Run">>, NoDescription}

\* a tool descriptor
Descriptors ==
    [name : Range(ToolNames), description : Descriptions,
     inputSchema : ToolSchemas]

\* lists of at most MaxTools descriptors with distinct names
DescriptorLists ==
    {l : l \in {ts \in SeqsUpTo(Descriptors, MaxTools) :
                    \A i, j \in 1..Len(ts) : i # j => ts[i].name # ts[j].name}}

ReturnSuffix == <<" The tool returns its result as a string.">>

\* line 229: None + str raises a TypeError
ConvertFails(ts) == \E i \in 1..Len(ts) : ts[i].description = NoDescription

\* Variant of convert_mcp_tools_to_gemini: all declarations are put in one
\* Tool group
convert_mcp_tools_to_geminiBatched(ts) ==
    IF Len(ts) = 0 THEN <<>>
    ELSE <<[i \in 1..Len(ts) |->
              [name |-> ts[i].name,
               description |-> ts[i].description \o ReturnSuffix,
               parameters |-> clean_schema(ts[i].inputSchema)]]>>

\* lines 224-240: one Tool group of one declaration per tool, in order
convert_mcp_tools_to_gemini(ts) ==
    [i \in 1..Len(ts) |->
        <<[name |-> ts[i].name,
           description |-> ts[i].description \o ReturnSuffix,
           parameters |-> clean_schema(ts[i].inputSchema)]>>]

\* line 226: clean_schema works in place, so the descriptors that
\* convert_mcp_tools_to_gemini got to hold a cleaned inputSchema afterwards:
\* all of them, or those up to the descriptor whose description is missing
Cleaned(ts) ==
    LET last == IF ConvertFails(ts)
                  THEN CHOOSE i \in 1..Len(ts) :
                          /\ ts[i].description = NoDescription
                          /\ \A j \in 1..(i - 1) : ts[j].description # NoDescription
                  ELSE Len(ts)
    IN [i \in 1..Len(ts) |->
           IF i <= last
             THEN [ts[i] EXCEPT !.inputSchema = clean_schema(ts[i].inputSchema)]
             ELSE ts[i]]

(***************************************************************************)
(* MCPClient.connect_to_sse_server                                         *)
(***************************************************************************)
\* line 57: the context object is stored before it is entered
Connect57 ==
    /\ pc = "connect57"
    /\ streams_context' = "ctx"
    /\ state' = "Connecting"
    /\ pc' = "connect59"
    /\ UNCHANGED cleanVars
    /\ UNCHANGED <<exc, pending, session_context, session,
                   function_declarations, tEntered, tExits, sEntered, sExits,
                   initialized, cleanupCalls, cleanupFrom, tools, queryVars>>

\* line 59: await self._streams_context.__aenter__()
Connect59 ==
    /\ pc = "connect59"
    /\ \E ok \in BOOLEAN :
         IF ok THEN /\ tEntered' = TRUE
                    /\ pc' = "connect61"
                    /\ exc' = exc
               ELSE /\ Raise("ConnectionError")
                    /\ tEntered' = tEntered
    /\ UNCHANGED cleanVars
    /\ UNCHANGED <<pending, streams_context, session_context, session,
                   function_declarations, tExits, sEntered, sExits,
                   initialized, state, cleanupCalls, cleanupFrom, tools,
                   queryVars>>

\* line 61: self._session_context = ClientSession(*streams)
Connect61 ==
    /\ pc = "connect61"
    /\ session_context' = "ctx"
    /\ pc' = "connect62"
    /\ UNCHANGED cleanVars
    /\ UNCHANGED <<exc, pending, streams_context, session,
                   function_declarations, tEntered, tExits, sEntered, sExits,
                   initialized, state, cleanupCalls, cleanupFrom, tools,
                   queryVars>>

\* line 62: self.session = await self._session_context.__aenter__()
Connect62 ==
    /\ pc = "connect62"
    /\ \E ok \in BOOLEAN :
         IF ok THEN /\ sEntered' = TRUE
                    /\ session' = "session"
                    /\ pc' = "connect64"
                    /\ exc' = exc
               ELSE /\ Raise("ConnectionError")
                    /\ UNCHANGED <<sEntered, session>>
    /\ UNCHANGED cleanVars
    /\ UNCHANGED <<pending, streams_context, session_context,
                   function_declarations, tEntered, tExits, sExits,
                   initialized, state, cleanupCalls, cleanupFrom, tools,
                   queryVars>>

\* Variant of Connect64: a failed handshake is ignored and connect goes on
Connect64Unchecked ==
    /\ pc = "connect64"
    /\ \E ok \in BOOLEAN : initialized' = (initialized \/ ok)
    /\ pc' = "connect68"
    /\ UNCHANGED cleanVars
    /\ UNCHANGED <<exc, pending, streams_context, session_context, session,
                   function_declarations, tEntered, tExits, sEntered, sExits,
                   state, cleanupCalls, cleanupFrom, tools, queryVars>>

\* line 64: await self.session.initialize()
Connect64 ==
    /\ pc = "connect64"
    /\ \E ok \in BOOLEAN :
         IF ok THEN /\ initialized' = TRUE
                    /\ pc' = "connect68"
                    /\ exc' = exc
               ELSE /\ Raise("ProtocolError")
                    /\ initialized' = initialized
    /\ UNCHANGED cleanVars
    /\ UNCHANGED <<pending, streams_context, session_context, session,
                   function_declarations, tEntered, tExits, sEntered, sExits,
                   state, cleanupCalls, cleanupFrom, tools, queryVars>>

\* lines 68-70: response = await self.session.list_tools()
Connect68 ==
    /\ pc = "connect68"
    /\ \/ /\ \E tl \in ToolLists : tools' = tl
          /\ pc' = "connect72"
          /\ exc' = exc
       \/ /\ Raise("ProtocolError")
          /\ tools' = tools
    /\ UNCHANGED cleanVars
    /\ UNCHANGED <<pending, streams_context, session_context, session,
                   function_declarations, tEntered, tExits, sEntered, sExits,
                   initialized, state, cleanupCalls, cleanupFrom, queryVars>>

\* line 72: self.function_declarations = convert_mcp_tools_to_gemini(tools)
Connect72 ==
    /\ pc = "connect72"
    /\ tools' = Cleaned(tools)
    /\ IF ConvertFails(tools)
         THEN /\ Raise("TypeError")
              /\ UNCHANGED <<function_declarations, state>>
         ELSE /\ function_declarations' = convert_mcp_tools_to_gemini(tools)
              /\ state' = "Ready"
              /\ pc' = "connect_ret"
              /\ exc' = exc
    /\ UNCHANGED cleanVars
    /\ UNCHANGED <<pending, streams_context, session_context, session,
                   tEntered, tExits, sEntered, sExits, initialized,
                   cleanupCalls, cleanupFrom, queryVars>>

\* convert_mcp_tools_to_gemini called on a list of descriptors
Convert208 ==
    /\ pc = "convert208"
    /\ tools' = Cleaned(tools)
    /\ IF ConvertFails(tools)
         THEN /\ exc' = "TypeError"
              /\ pc' = "convert_raised"
              /\ UNCHANGED function_declarations
         ELSE /\ function_declarations' = convert_mcp_tools_to_gemini(tools)
              /\ pc' = "convert_ret"
              /\ exc' = exc
    /\ UNCHANGED cleanVars
    /\ UNCHANGED <<pending, streams_context, session_context, session,
                   tEntered, tExits, sEntered, sExits, initialized, state,
                   cleanupCalls, cleanupFrom, queryVars>>

\* clean_schema called on a schema, and again on what it returned
CleanSchema185 ==
    /\ pc = "clean185"
    /\ cleanCalls < MaxCleanCalls
    /\ schema' = clean_schema(schema)
    /\ cleanCalls' = cleanCalls + 1
    /\ UNCHANGED <<pc, exc, pending, lifeVars, queryVars, schemaIn>>

(***************************************************************************)
(* MCPClient.cleanup                                                       *)
(***************************************************************************)
\* Outcomes of __aexit__(None, None, None): TRUE returns, FALSE raises.  The
\* teardown of an entered context may fail (a broken stream, a failed task);
\* exiting a context whose __aenter__ did not complete is taken to return.
ExitOutcomes(entered) == IF entered THEN BOOLEAN ELSE {TRUE}

\* Variant of Cleanup82: the session context is not exited
Cleanup82SkipSession ==
    /\ pc = "cleanup82"
    /\ cleanupCalls' = cleanupCalls + 1
    /\ cleanupFrom' = state
    /\ state' = "Closing"
    /\ pc' = "cleanup84"
    /\ UNCHANGED cleanVars
    /\ UNCHANGED <<exc, pending, streams_context, session_context, session,
                   function_declarations, tEntered, tExits, sEntered, sExits,
                   initialized, tools, queryVars>>

\* lines 82-83: if self._session_context: await ...__aexit__(None, None, None)
Cleanup82 ==
    /\ pc = "cleanup82"
    /\ cleanupCalls' = cleanupCalls + 1
    /\ cleanupFrom' = state
    /\ state' = "Closing"
    /\ IF session_context # "None"
         THEN /\ sExits' = sExits + 1
              /\ \E ok \in ExitOutcomes(sEntered) :
                   IF ok THEN pc' = "cleanup84" /\ exc' = exc
                         ELSE Raise("TeardownError")
         ELSE /\ sExits' = sExits
              /\ pc' = "cleanup84"
              /\ exc' = exc
    /\ UNCHANGED cleanVars
    /\ UNCHANGED <<pending, streams_context, session_context, session,
                   function_declarations, tEntered, tExits, sEntered,
                   initialized, tools, queryVars>>

\* lines 84-85: if self._streams_context: await ...__aexit__(None, None, None)
Cleanup84 ==
    /\ pc = "cleanup84"
    /\ IF streams_context # "None"
         THEN /\ tExits' = tExits + 1
              /\ \E ok \in ExitOutcomes(tEntered) :
                   IF ok THEN /\ pc' = "cleanup_ret"
                              /\ state' = "Closed"
                              /\ exc' = exc
                         ELSE /\ Raise("TeardownError")
                              /\ state' = state
         ELSE /\ tExits' = tExits
              /\ pc' = "cleanup_ret"
              /\ state' = "Closed"
              /\ exc' = exc
    /\ UNCHANGED cleanVars
    /\ UNCHANGED <<pending, streams_context, session_context, session,
                   function_declarations, tEntered, sEntered, sExits,
                   initialized, cleanupCalls, cleanupFrom, tools, queryVars>>

(***************************************************************************)
(* Values at the model and tool boundaries                                 *)
(***************************************************************************)
\* function_call.args that dict() cannot convert
NoneArgs == [isMap |-> FALSE, items |-> {}]
AddArgs == [isMap |-> TRUE, items |-> {<<"num1", 2>>, <<"num2", 3>>}]

TextPart(t) == [kind |-> "text", text |-> t, name |-> "", args |-> NoneArgs]
CallPart(n, a) == [kind |-> "function_call", text |-> <<>>, name |-> n, args |-> a]

Texts == {<<"hello">>, <<"world">>}

PartValues ==
    {TextPart(t) : t \in Texts}
        \cup {CallPart("add_integers", AddArgs), CallPart("run_command", NoneArgs)}

RECURSIVE Flatten(_)
Flatten(cs) == IF Len(cs) = 0 THEN <<>> ELSE cs[1] \o Flatten(Tail(cs))

\* response.candidates: each candidate is its content.parts; a response has
\* at most MaxCandidates candidates and at most MaxParts parts in all.  A
\* candidate without parts is taken alone: among other candidates it only
\* adds an empty pass of the inner loop.
Responses ==
    {r : r \in {c \in SeqsUpTo(SeqsUpTo(PartValues, MaxParts), MaxCandidates) :
                    /\ Len(Flatten(c)) <= MaxParts
                    /\ (Len(c) > 1 => \A i \in 1..Len(c) : Len(c[i]) > 0)}}

\* Responses to a continuation request: lines 158-159 read nothing of them but
\* candidates[0].content.parts[0], so they are taken with no more than that:
\* no candidate, a candidate without parts, a text, or another function call
ContinuationText == <<"done">>

ContinuationResponses ==
    { <<>>, << <<>> >>, << <<TextPart(ContinuationText)>> >>,
      << <<CallPart("add_integers", AddArgs)>> >> }

\* line 105: hasattr(part, "function_call") and part.function_call
IsFunctionCall(part) == part.kind = "function_call"

\* part.text: empty for a part that carries a function call
PartText(part) == IF part.kind = "text" THEN part.text ELSE <<>>

\* lines 107-111: dict(args), {} when the conversion raises
ToolArgs(args) == IF args.isMap THEN args.items ELSE {}

\* values session.call_tool may return
ToolResults ==
    { [kind |-> "dict", key |-> "result", value |-> "5"],
      [kind |-> "str", key |-> "", value |-> "5"] }

ToolErrors == {"timeout"}

\* json.dumps of a one-entry mapping
JsonDumps(r) == <<"{", "\"", r.key, "\"", ": ", r.value, "}">>

\* str of a scalar
Str(r) == <<r.value>>

\* lines 118-123
SerializeResult(r) == IF r.kind \in {"list", "dict"} THEN JsonDumps(r) ELSE Str(r)

\* line 125
ToolErrorText(e) == <<"Tool error: ", e>>

\* line 91
UserTurn(q) == [role |-> "user", kind |-> "text", name |-> "", args |-> {},
                content |-> q]
\* lines 141-149
FunctionCallTurn(n, a) == [role |-> "model", kind |-> "function_call",
                           name |-> n, args |-> a, content |-> <<>>]
\* lines 128-138
FunctionResponseTurn(n, t) == [role |-> "function", kind |-> "function_response",
                               name |-> n, args |-> {}, content |-> t]

\* '\n'.join(texts)
RECURSIVE Join(_)
Join(texts) ==
    IF Len(texts) = 0 THEN <<>>
    ELSE IF Len(texts) = 1 THEN texts[1]
    ELSE texts[1] \o <<"\n">> \o Join(Tail(texts))

\* number of function-call parts of a response
RECURSIVE CountCalls(_)
CountCalls(parts) ==
    IF Len(parts) = 0 THEN 0
    ELSE (IF IsFunctionCall(parts[1]) THEN 1 ELSE 0) + CountCalls(Tail(parts))

(***************************************************************************)
(* Operator input                                                          *)
(***************************************************************************)
Lines ==
    { <<"e", "x", "i", "t">>,
      <<" ", "E", "x", "I", "T", " ">>,
      <<" ", "a", " ">>,
      <<" ">> }

RECURSIVE LStrip(_)
LStrip(l) == IF Len(l) > 0 /\ l[1] = " " THEN LStrip(Tail(l)) ELSE l

RECURSIVE RStrip(_)
RStrip(l) ==
    IF Len(l) > 0 /\ l[Len(l)] = " " THEN RStrip(SubSeq(l, 1, Len(l) - 1)) ELSE l

\* str.strip()
Strip(l) == RStrip(LStrip(l))

LowerChar(c) ==
    CASE c = "E" -> "e" [] c = "X" -> "x" [] c = "I" -> "i" [] c = "T" -> "t"
      [] OTHER -> c

\* str.lower()
Lower(l) == [i \in 1..Len(l) |-> LowerChar(l[i])]

ExitSentinel == <<"e", "x", "i", "t">>

(***************************************************************************)
(* MCPClient.chat_loop and MCPClient.process_query                         *)
(***************************************************************************)
\* lines 176-181: read a line, strip it, leave on the sentinel, else call
\* process_query; input() itself may raise (end of input, interrupt)
ChatLoop176 ==
    /\ pc = "loop176"
    /\ \/ \E line \in Lines :
            IF Lower(Strip(line)) = ExitSentinel
              THEN /\ linesRead' = Append(linesRead, line)
                   /\ pc' = "chat_ret"
                   /\ UNCHANGED <<exc, nQueries, query, passed>>
              ELSE /\ nQueries < MaxQueries
                   /\ nQueries' = nQueries + 1
                   /\ linesRead' = Append(linesRead, line)
                   /\ query' = Strip(line)
                   /\ passed' = Append(passed, Strip(line))
                   /\ pc' = "pq91"
                   /\ exc' = exc
       \/ /\ Raise("EOFError")
          /\ UNCHANGED <<nQueries, query, linesRead, passed>>
    /\ UNCHANGED cleanVars
    /\ UNCHANGED response
    /\ UNCHANGED <<pending, lifeVars, candidates, ci, pi, final_text, tool_name,
                   tool_args, function_response, lastRequest, toolInFlight,
                   genInFlight, toolLog, answered, genCount, fcSeen, result>>

\* Variant of ProcessQuery91: the conversation is kept across queries, the
\* request holds the user turn of every query given so far
ProcessQuery91KeepsHistory ==
    /\ pc = "pq91"
    /\ lastRequest' = [i \in 1..Len(passed) |-> UserTurn(passed[i])]
    /\ genInFlight' = genInFlight + 1
    /\ genCount' = 1
    /\ toolLog' = <<>>
    /\ answered' = <<>>
    /\ fcSeen' = 0
    /\ pc' = "pq99"
    /\ UNCHANGED cleanVars
    /\ UNCHANGED <<response, linesRead, passed>>
    /\ UNCHANGED <<exc, pending, lifeVars, nQueries, query, candidates, ci, pi,
                   final_text, tool_name, tool_args, function_response,
                   toolInFlight, result>>

\* lines 91-99: the initial generation request is issued
ProcessQuery91 ==
    /\ pc = "pq91"
    /\ lastRequest' = <<UserTurn(query)>>
    /\ genInFlight' = genInFlight + 1
    /\ genCount' = 1
    /\ toolLog' = <<>>
    /\ answered' = <<>>
    /\ fcSeen' = 0
    /\ pc' = "pq99"
    /\ UNCHANGED cleanVars
    /\ UNCHANGED <<response, linesRead, passed>>
    /\ UNCHANGED <<exc, pending, lifeVars, nQueries, query, candidates, ci, pi,
                   final_text, tool_name, tool_args, function_response,
                   toolInFlight, result>>

\* lines 99-102: the initial response arrives, or generate_content raises
ProcessQuery99 ==
    /\ pc = "pq99"
    /\ genInFlight' = genInFlight - 1
    /\ \/ \E r \in Responses :
            /\ response' = r
            /\ candidates' = r
            /\ ci' = 1
            /\ pi' = 1
            /\ final_text' = <<>>
            /\ fcSeen' = fcSeen + CountCalls(Flatten(r))
            /\ pc' = "pq102"
            /\ exc' = exc
       \/ /\ Raise("GenerationError")
          /\ UNCHANGED <<response, candidates, ci, pi, final_text, fcSeen>>
    /\ UNCHANGED cleanVars
    /\ UNCHANGED <<linesRead, passed>>
    /\ UNCHANGED <<pending, lifeVars, nQueries, query, tool_name, tool_args,
                   function_response, lastRequest, toolInFlight, toolLog,
                   answered, genCount, result>>

\* Variant of ProcessQuery102: every part is handled as a text part
ProcessQuery102SkipCalls ==
    /\ pc = "pq102"
    /\ IF ci > Len(candidates)
         THEN /\ pc' = "pq163"
              /\ UNCHANGED <<ci, pi, final_text>>
         ELSE IF pi > Len(candidates[ci])
         THEN /\ ci' = ci + 1
              /\ pi' = 1
              /\ pc' = "pq102"
              /\ UNCHANGED final_text
         ELSE /\ final_text' = Append(final_text, candidates[ci][pi].text)
              /\ pi' = pi + 1
              /\ pc' = "pq102"
              /\ UNCHANGED ci
    /\ UNCHANGED cleanVars
    /\ UNCHANGED <<response, linesRead, passed>>
    /\ UNCHANGED <<exc, pending, lifeVars, nQueries, query, candidates,
                   tool_name, tool_args, function_response, lastRequest,
                   toolInFlight, genInFlight, toolLog, answered, genCount,
                   fcSeen, result>>

\* Variant of ProcessQuery102: dict(args) is not guarded by try/except, so
\* arguments that are no mapping end the query with a TypeError
ProcessQuery102NoTry ==
    /\ pc = "pq102"
    /\ IF ci > Len(candidates)
         THEN /\ pc' = "pq163"
              /\ exc' = exc
              /\ UNCHANGED <<ci, pi, final_text, tool_name, tool_args>>
         ELSE IF pi > Len(candidates[ci])
         THEN /\ ci' = ci + 1
              /\ pi' = 1
              /\ pc' = "pq102"
              /\ exc' = exc
              /\ UNCHANGED <<final_text, tool_name, tool_args>>
         ELSE IF IsFunctionCall(candidates[ci][pi])
         THEN IF candidates[ci][pi].args.isMap
                THEN /\ tool_name' = candidates[ci][pi].name
                     /\ tool_args' = candidates[ci][pi].args.items
                     /\ pc' = "pq116"
                     /\ exc' = exc
                     /\ UNCHANGED <<ci, pi, final_text>>
                ELSE /\ Raise("TypeError")
                     /\ tool_name' = candidates[ci][pi].name
                     /\ UNCHANGED <<ci, pi, final_text, tool_args>>
         ELSE /\ final_text' = Append(final_text, candidates[ci][pi].text)
              /\ pi' = pi + 1
              /\ pc' = "pq102"
              /\ exc' = exc
              /\ UNCHANGED <<ci, tool_name, tool_args>>
    /\ UNCHANGED cleanVars
    /\ UNCHANGED <<response, linesRead, passed>>
    /\ UNCHANGED <<pending, lifeVars, nQueries, query, candidates,
                   function_response, lastRequest, toolInFlight, genInFlight,
                   toolLog, answered, genCount, fcSeen, result>>

\* lines 102-113 and 160-161: advance over candidates and parts; a text part
\* is accumulated, a function-call part has its name and arguments extracted
ProcessQuery102 ==
    /\ pc = "pq102"
    /\ IF ci > Len(candidates)
         THEN /\ pc' = "pq163"
              /\ UNCHANGED <<ci, pi, final_text, tool_name, tool_args>>
         ELSE IF pi > Len(candidates[ci])
         THEN /\ ci' = ci + 1
              /\ pi' = 1
              /\ pc' = "pq102"
              /\ UNCHANGED <<final_text, tool_name, tool_args>>
         ELSE IF IsFunctionCall(candidates[ci][pi])
         THEN /\ tool_name' = candidates[ci][pi].name
              /\ tool_args' = ToolArgs(candidates[ci][pi].args)
              /\ pc' = "pq116"
              /\ UNCHANGED <<ci, pi, final_text>>
         ELSE /\ final_text' = Append(final_text, candidates[ci][pi].text)
              /\ pi' = pi + 1
              /\ pc' = "pq102"
              /\ UNCHANGED <<ci, tool_name, tool_args>>
    /\ UNCHANGED cleanVars
    /\ UNCHANGED <<response, linesRead, passed>>
    /\ UNCHANGED <<exc, pending, lifeVars, nQueries, query, candidates,
                   function_response, lastRequest, toolInFlight, genInFlight,
                   toolLog, answered, genCount, fcSeen, result>>

\* Variant of ProcessQuery116: the call is issued but not awaited
ProcessQuery116NoAwait ==
    /\ pc = "pq116"
    /\ toolInFlight' = toolInFlight + 1
    /\ toolLog' = Append(toolLog, [name |-> tool_name, args |-> tool_args,
                                   outcome |-> "pending"])
    /\ pc' = "pq152"
    /\ UNCHANGED cleanVars
    /\ UNCHANGED <<response, linesRead, passed>>
    /\ UNCHANGED <<exc, pending, lifeVars, nQueries, query, candidates, ci, pi,
                   final_text, tool_name, tool_args, function_response,
                   lastRequest, genInFlight, answered, genCount, fcSeen,
                   result>>

\* line 116: self.session.call_tool(tool_name, tool_args) is issued and awaited
ProcessQuery116 ==
    /\ pc = "pq116"
    /\ toolInFlight' = toolInFlight + 1
    /\ toolLog' = Append(toolLog, [name |-> tool_name, args |-> tool_args,
                                   outcome |-> "pending"])
    /\ pc' = "pq116w"
    /\ UNCHANGED cleanVars
    /\ UNCHANGED <<response, linesRead, passed>>
    /\ UNCHANGED <<exc, pending, lifeVars, nQueries, query, candidates, ci, pi,
                   final_text, tool_name, tool_args, function_response,
                   lastRequest, genInFlight, answered, genCount, fcSeen,
                   result>>

\* Variant of ProcessQuery116Ret: an exception of call_tool is not caught
ProcessQuery116RetNoCatch ==
    /\ pc = "pq116w"
    /\ toolInFlight' = toolInFlight - 1
    /\ \/ /\ \E r \in ToolResults : function_response' = SerializeResult(r)
          /\ toolLog' = [toolLog EXCEPT ![Len(toolLog)].outcome = "returned"]
          /\ pc' = "pq152"
          /\ exc' = exc
       \/ /\ \E e \in ToolErrors : Raise(e)
          /\ toolLog' = [toolLog EXCEPT ![Len(toolLog)].outcome = "raised"]
          /\ function_response' = function_response
    /\ UNCHANGED cleanVars
    /\ UNCHANGED <<response, linesRead, passed>>
    /\ UNCHANGED <<pending, lifeVars, nQueries, query, candidates, ci, pi,
                   final_text, tool_name, tool_args, lastRequest, genInFlight,
                   answered, genCount, fcSeen, result>>

\* lines 116-125: the await ends with a result, which is serialized, or with
\* an exception, which is turned into an error text
ProcessQuery116Ret ==
    /\ pc = "pq116w"
    /\ toolInFlight' = toolInFlight - 1
    /\ \/ /\ \E r \in ToolResults : function_response' = SerializeResult(r)
          /\ toolLog' = [toolLog EXCEPT ![Len(toolLog)].outcome = "returned"]
       \/ /\ \E e \in ToolErrors : function_response' = ToolErrorText(e)
          /\ toolLog' = [toolLog EXCEPT ![Len(toolLog)].outcome = "raised"]
    /\ pc' = "pq152"
    /\ UNCHANGED cleanVars
    /\ UNCHANGED <<response, linesRead, passed>>
    /\ UNCHANGED <<exc, pending, lifeVars, nQueries, query, candidates, ci, pi,
                   final_text, tool_name, tool_args, lastRequest, genInFlight,
                   answered, genCount, fcSeen, result>>

\* Variant of ProcessQuery152: the conversation grows, the request of a later
\* call also holds the turns of the earlier calls
ProcessQuery152Accumulates ==
    /\ pc = "pq152"
    /\ lastRequest' = lastRequest \o
                        <<FunctionCallTurn(tool_name, tool_args),
                          FunctionResponseTurn(tool_name, function_response)>>
    /\ answered' = Append(answered, tool_name)
    /\ genInFlight' = genInFlight + 1
    /\ genCount' = genCount + 1
    /\ pc' = "pq152w"
    /\ UNCHANGED cleanVars
    /\ UNCHANGED <<response, linesRead, passed>>
    /\ UNCHANGED <<exc, pending, lifeVars, nQueries, query, candidates, ci, pi,
                   final_text, tool_name, tool_args, function_response,
                   toolInFlight, toolLog, fcSeen, result>>

\* lines 127-156: the continuation request is issued
ProcessQuery152 ==
    /\ pc = "pq152"
    /\ lastRequest' = <<UserTurn(query),
                        FunctionCallTurn(tool_name, tool_args),
                        FunctionResponseTurn(tool_name, function_response)>>
    /\ answered' = Append(answered, tool_name)
    /\ genInFlight' = genInFlight + 1
    /\ genCount' = genCount + 1
    /\ pc' = "pq152w"
    /\ UNCHANGED cleanVars
    /\ UNCHANGED <<response, linesRead, passed>>
    /\ UNCHANGED <<exc, pending, lifeVars, nQueries, query, candidates, ci, pi,
                   final_text, tool_name, tool_args, function_response,
                   toolInFlight, toolLog, fcSeen, result>>

\* Variant of ProcessQuery152Ret: the text of the continuation is not
\* accumulated
ProcessQuery152RetNoText ==
    /\ pc = "pq152w"
    /\ genInFlight' = genInFlight - 1
    /\ \/ \E r \in ContinuationResponses :
            /\ response' = r
            /\ fcSeen' = fcSeen + CountCalls(Flatten(r))
            /\ final_text' = final_text
            /\ pi' = pi + 1
            /\ pc' = "pq102"
            /\ exc' = exc
       \/ /\ Raise("GenerationError")
          /\ UNCHANGED <<response, fcSeen, final_text, pi>>
    /\ UNCHANGED cleanVars
    /\ UNCHANGED <<linesRead, passed>>
    /\ UNCHANGED <<pending, lifeVars, nQueries, query, candidates, ci,
                   tool_name, tool_args, function_response, lastRequest,
                   toolInFlight, toolLog, answered, genCount, result>>

\* Variant of ProcessQuery152Ret: a function call that leads the continuation
\* is dispatched like one of the original response
ProcessQuery152RetDispatch ==
    /\ pc = "pq152w"
    /\ genInFlight' = genInFlight - 1
    /\ \/ \E r \in ContinuationResponses :
            /\ response' = r
            /\ fcSeen' = fcSeen + CountCalls(Flatten(r))
            /\ exc' = exc
            /\ IF Len(r) > 0 /\ Len(r[1]) > 0 /\ IsFunctionCall(r[1][1])
                 THEN /\ tool_name' = r[1][1].name
                      /\ tool_args' = ToolArgs(r[1][1].args)
                      /\ pc' = "pq116"
                      /\ UNCHANGED <<final_text, pi>>
                 ELSE /\ final_text' = IF Len(r) > 0 /\ Len(r[1]) > 0
                                          THEN Append(final_text, PartText(r[1][1]))
                                          ELSE final_text
                      /\ pi' = pi + 1
                      /\ pc' = "pq102"
                      /\ UNCHANGED <<tool_name, tool_args>>
       \/ /\ Raise("GenerationError")
          /\ UNCHANGED <<response, fcSeen, final_text, pi, tool_name, tool_args>>
    /\ UNCHANGED cleanVars
    /\ UNCHANGED <<linesRead, passed>>
    /\ UNCHANGED <<pending, lifeVars, nQueries, query, candidates, ci,
                   function_response, lastRequest,
                   toolInFlight, toolLog, answered, genCount, result>>

\* lines 152-159: the continuation response arrives and its leading part's
\* text is accumulated, or generate_content raises
ProcessQuery152Ret ==
    /\ pc = "pq152w"
    /\ genInFlight' = genInFlight - 1
    /\ \/ \E r \in ContinuationResponses :
            /\ response' = r
            /\ fcSeen' = fcSeen + CountCalls(Flatten(r))
            /\ final_text' = IF Len(r) > 0 /\ Len(r[1]) > 0
                                THEN Append(final_text, PartText(r[1][1]))
                                ELSE final_text
            /\ pi' = pi + 1
            /\ pc' = "pq102"
            /\ exc' = exc
       \/ /\ Raise("GenerationError")
          /\ UNCHANGED <<response, fcSeen, final_text, pi>>
    /\ UNCHANGED cleanVars
    /\ UNCHANGED <<linesRead, passed>>
    /\ UNCHANGED <<pending, lifeVars, nQueries, query, candidates, ci,
                   tool_name, tool_args, function_response, lastRequest,
                   toolInFlight, toolLog, answered, genCount, result>>

\* Variant of ProcessQuery163: the texts are joined without a separator
ProcessQuery163NoSeparator ==
    /\ pc = "pq163"
    /\ result' = Flatten(final_text)
    /\ ci' = 1
    /\ pi' = 1
    /\ final_text' = <<>>
    /\ tool_name' = ""
    /\ tool_args' = {}
    /\ function_response' = <<>>
    /\ pc' = "loop182"
    /\ UNCHANGED cleanVars
    /\ UNCHANGED <<response, linesRead, passed>>
    /\ UNCHANGED <<exc, pending, lifeVars, nQueries, query, candidates,
                   lastRequest,
                   toolInFlight, genInFlight, toolLog, answered, genCount,
                   fcSeen>>

\* line 163: return '\n'.join(final_text); the locals end with the call,
\* the responses of the model stay on record until the result is printed
ProcessQuery163 ==
    /\ pc = "pq163"
    /\ result' = Join(final_text)
    /\ ci' = 1
    /\ pi' = 1
    /\ final_text' = <<>>
    /\ tool_name' = ""
    /\ tool_args' = {}
    /\ function_response' = <<>>
    /\ pc' = "loop182"
    /\ UNCHANGED cleanVars
    /\ UNCHANGED <<response, linesRead, passed>>
    /\ UNCHANGED <<exc, pending, lifeVars, nQueries, query, candidates,
                   lastRequest,
                   toolInFlight, genInFlight, toolLog, answered, genCount,
                   fcSeen>>

\* line 182: the response is printed and the loop reads the next line; what
\* was recorded about the finished query is dropped
ChatLoop182 ==
    /\ pc = "loop182"
    /\ result' = <<>>
    /\ candidates' = <<>>
    /\ response' = <<>>
    /\ toolLog' = <<>>
    /\ answered' = <<>>
    /\ genCount' = 0
    /\ fcSeen' = 0
    /\ lastRequest' = <<>>
    /\ pc' = "loop176"
    /\ UNCHANGED cleanVars
    /\ UNCHANGED <<linesRead, passed>>
    /\ UNCHANGED <<exc, pending, lifeVars, nQueries, query, ci, pi,
                   final_text, tool_name, tool_args, function_response,
                   toolInFlight, genInFlight>>

(***************************************************************************)
(* main                                                                    *)
(***************************************************************************)
\* line 267
Main267 ==
    /\ pc = "main267"
    /\ pc' = "connect57"
    /\ UNCHANGED cleanVars
    /\ UNCHANGED <<exc, pending, lifeVars, queryVars>>

\* line 269
Main269 ==
    /\ pc = "connect_ret"
    /\ pc' = "loop176"
    /\ UNCHANGED cleanVars
    /\ UNCHANGED <<exc, pending, lifeVars, queryVars>>

\* lines 271-273: the finally clause is entered from every way out of the
\* try block and holds the exception that is propagating, if any; chat_loop
\* and process_query are over, and so are their locals and what was recorded
\* about the last query
Main271 ==
    /\ pc \in {"connect_raised", "chat_raised", "chat_ret"}
    /\ pending' = exc
    /\ exc' = "none"
    /\ pc' = "cleanup82"
    /\ query' = <<>>
    /\ candidates' = <<>>
    /\ response' = <<>>
    /\ ci' = 1
    /\ pi' = 1
    /\ final_text' = <<>>
    /\ tool_name' = ""
    /\ tool_args' = {}
    /\ function_response' = <<>>
    /\ lastRequest' = <<>>
    /\ toolLog' = <<>>
    /\ answered' = <<>>
    /\ genCount' = 0
    /\ fcSeen' = 0
    /\ result' = <<>>
    /\ UNCHANGED cleanVars
    /\ UNCHANGED <<lifeVars, nQueries, toolInFlight, genInFlight, linesRead,
                   passed>>

\* main ends: an exception raised by cleanup replaces the held one
MainEnd ==
    /\ pc \in {"cleanup_ret", "cleanup_raised"}
    /\ exc' = IF pc = "cleanup_raised" THEN exc ELSE pending
    /\ pc' = "main_done"
    /\ UNCHANGED cleanVars
    /\ UNCHANGED <<pending, lifeVars, queryVars>>

(***************************************************************************)
(* A caller of one MCPClient other than main                               *)
(***************************************************************************)
CallerConnect ==
    /\ pc = "idle"
    /\ state = "Unconnected"
    /\ pc' = "connect57"
    /\ UNCHANGED cleanVars
    /\ UNCHANGED <<exc, pending, lifeVars, queryVars>>

CallerCleanup ==
    /\ pc = "idle"
    /\ cleanupCalls < MaxCleanupCalls
    /\ pc' = "cleanup82"
    /\ UNCHANGED cleanVars
    /\ UNCHANGED <<exc, pending, lifeVars, queryVars>>

\* the call returns or raises to the caller, which goes on
CallerReturn ==
    /\ pc \in {"connect_ret", "connect_raised", "cleanup_ret", "cleanup_raised"}
    /\ pending' = exc
    /\ exc' = "none"
    /\ pc' = "idle"
    /\ UNCHANGED cleanVars
    /\ UNCHANGED <<lifeVars, queryVars>>

(***************************************************************************)
(* Specifications                                                          *)
(***************************************************************************)
\* lines 33-36: the state after MCPClient()
InitClient ==
    /\ exc = "none"
    /\ pending = "none"
    /\ streams_context = "None"
    /\ session_context = "None"
    /\ session = "None"
    /\ function_declarations = "unset"
    /\ tEntered = FALSE
    /\ tExits = 0
    /\ sEntered = FALSE
    /\ sExits = 0
    /\ initialized = FALSE
    /\ state = "Unconnected"
    /\ cleanupCalls = 0
    /\ cleanupFrom = "none"
    /\ nQueries = 0
    /\ query = <<>>
    /\ candidates = <<>>
    /\ ci = 1
    /\ pi = 1
    /\ final_text = <<>>
    /\ tool_name = ""
    /\ tool_args = {}
    /\ function_response = <<>>
    /\ lastRequest = <<>>
    /\ toolInFlight = 0
    /\ genInFlight = 0
    /\ toolLog = <<>>
    /\ answered = <<>>
    /\ genCount = 0
    /\ fcSeen = 0
    /\ result = <<>>
    /\ response = <<>>
    /\ linesRead = <<>>
    /\ passed = <<>>

\* no descriptor list and no schema is at hand
NoInputs ==
    /\ tools = <<>>
    /\ schemaIn = <<>>
    /\ schema = <<>>
    /\ cleanCalls = 0

\* line 263: main has constructed the client
Init == InitClient /\ NoInputs /\ pc = "main267"

InitCaller == InitClient /\ NoInputs /\ pc = "idle"

\* clean_schema is about to be called on a schema
InitClean ==
    /\ InitClient
    /\ tools = <<>>
    /\ pc = "clean185"
    /\ schemaIn \in Schemas
    /\ schema = schemaIn
    /\ cleanCalls = 0

\* convert_mcp_tools_to_gemini is about to be called on a descriptor list
InitConvert ==
    /\ InitClient
    /\ schemaIn = <<>>
    /\ schema = <<>>
    /\ cleanCalls = 0
    /\ pc = "convert208"
    /\ tools \in DescriptorLists

Connect ==
    \/ Connect57 \/ Connect59 \/ Connect61 \/ Connect62
    \/ Connect64 \/ Connect68 \/ Connect72

Cleanup == Cleanup82 \/ Cleanup84

ChatLoop ==
    \/ ChatLoop176 \/ ProcessQuery91 \/ ProcessQuery99 \/ ProcessQuery102
    \/ ProcessQuery116 \/ ProcessQuery116Ret \/ ProcessQuery152
    \/ ProcessQuery152Ret \/ ProcessQuery163 \/ ChatLoop182

Next ==
    \/ Main267 \/ Main269 \/ Main271 \/ MainEnd
    \/ Connect \/ ChatLoop \/ Cleanup

Spec == Init /\ [][Next]_vars

NextClient ==
    \/ CallerConnect \/ CallerCleanup \/ CallerReturn
    \/ Connect \/ Cleanup

SpecClient == InitCaller /\ [][NextClient]_vars

NextClean == CleanSchema185

SpecClean == InitClean /\ [][NextClean]_vars

NextConvert == Convert208

SpecConvert == InitConvert /\ [][NextConvert]_vars

(***************************************************************************)
(* Properties                                                              *)
(***************************************************************************)
LastCall == toolLog[Len(toolLog)]

\* some call_tool of the current query raised
ToolRaised == \E i \in 1..Len(toolLog) : toolLog[i].outcome = "raised"

\* names of the function-call parts, in encounter order
RECURSIVE CallNames(_)
CallNames(parts) ==
    IF Len(parts) = 0 THEN <<>>
    ELSE (IF IsFunctionCall(parts[1]) THEN <<parts[1].name>> ELSE <<>>)
            \o CallNames(Tail(parts))

\* the texts call_tool's outcome can be turned into
ResultTexts ==
    {SerializeResult(r) : r \in ToolResults} \cup {ToolErrorText(e) : e \in ToolErrors}

\* C1: every session.call_tool invocation happens after session.initialize()
\* has completed successfully and before cleanup() has begun, that is, only
\* in the Ready state of the lifecycle.
C1_ToolCallsOnlyWhenReady ==
    (pc \in {"pq116", "pq116w"} \/ toolInFlight > 0) =>
        /\ state = "Ready"
        /\ initialized
        /\ session # "None"
        /\ cleanupCalls = 0

C1_Witness == toolInFlight = 1 /\ state = "Ready" /\ initialized

\* C2: on every exit path of main, every session and transport resource that
\* was acquired has been released when main ends, also when releasing the
\* session fails.
C2_AllReleasedAtExit ==
    pc = "main_done" =>
        /\ (tEntered => tExits > 0)
        /\ (sEntered => sExits > 0)

\* C3: the transport is never released while the session built on it is
\* still unreleased; when both are released the session goes first.
C3_SessionBeforeTransport ==
    tExits > 0 => (sEntered => sExits > 0)

C3_Witness == tEntered /\ sEntered /\ sExits = 1 /\ tExits = 1

\* C4: cleanup never exits a transport context whose entry did not complete
\* and never exits a session context whose entry did not complete.
C4_ExitsOnlyWhatWasEntered ==
    /\ (tExits > 0 => tEntered)
    /\ (sExits > 0 => sEntered)

\* C5: cleanup, called from any lifecycle state, never raises and ends in
\* the Closed state.
C5_CleanupNeverRaises ==
    /\ pc # "cleanup_raised"
    /\ (pc = "cleanup_ret" => state = "Closed")

\* C6: cleanup called before connect completes does not raise; a second
\* cleanup does not raise and does not release an already released session
\* or transport again.
C6_CleanupEarlyAndTwice ==
    /\ (pc = "cleanup_raised" =>
            ~(cleanupFrom \in {"Unconnected", "Connecting"} \/ cleanupCalls >= 2))
    /\ sExits <= 1
    /\ tExits <= 1

\* C7: a failed generation request abandons only the current query: the
\* failure does not leave chat_loop, so it never ends the chat loop and
\* never reaches main's finally clause, where the session is torn down.
C7_GenerationFailureKeepsShell ==
    /\ (pc = "chat_raised" => exc # "GenerationError")
    /\ pending # "GenerationError"

\* C8 as stated: if call_tool raised, process_query returns a non-empty
\* string that contains an error indicator.
C8_ReturnsErrorIndicator ==
    (pc = "loop182" /\ ToolRaised) =>
        /\ result # <<>>
        /\ "Tool error: " \in Range(result)

\* C8 as amended: an exception of call_tool never leaves process_query; it is
\* turned into the text "Tool error: <message>", which is the content of the
\* tool-result turn of the continuation request sent to the model; only a
\* failed generation request can end the query with an exception.
C8_ToolErrorGoesToModel ==
    /\ exc \notin ToolErrors
    /\ (Len(toolLog) > 0 /\ LastCall.outcome = "raised") =>
            /\ (pc = "chat_raised" => exc = "GenerationError")
            /\ (pc = "pq152" =>
                    \E e \in ToolErrors : function_response = ToolErrorText(e))
            /\ (pc = "pq152w" =>
                    \E e \in ToolErrors :
                        lastRequest[3] =
                            FunctionResponseTurn(LastCall.name, ToolErrorText(e)))

C8_Witness ==
    /\ pc = "loop182"
    /\ ToolRaised
    /\ "Tool error: " \notin Range(result)

\* C9 as stated: no function call issued by the model while a query is
\* processed is left unanswered.
C9_EveryCallAnswered ==
    pc = "loop182" => fcSeen = Len(answered)

\* C9 as amended: every function call of the original response that
\* process_query reaches is answered by a continuation request whose
\* tool-result turn carries that call's tool name and a text; when
\* process_query's loop ends, all function calls of the original response
\* have been answered, in order.
C9_OriginalCallsAnswered ==
    /\ (pc = "pq152w" =>
            /\ Len(lastRequest) = 3
            /\ lastRequest[3].kind = "function_response"
            /\ lastRequest[3].name = candidates[ci][pi].name
            /\ lastRequest[3].content \in ResultTexts
            /\ answered = CallNames(SubSeq(Flatten(candidates), 1,
                                            Len(Flatten(SubSeq(candidates, 1, ci - 1))) + pi)))
    /\ (pc = "pq163" => answered = CallNames(Flatten(candidates)))

C9_Witness == pc = "pq163" /\ Len(answered) = 2

\* C10: tool calls and generation requests are strictly sequential: at most
\* one of them is in progress at any time, and a continuation request is
\* issued only after the tool call it answers has returned or failed, with
\* that call's result text in it.
C10_StrictlySequential ==
    /\ toolInFlight + genInFlight <= 1
    /\ (pc = "pq152w" =>
            /\ genCount = Len(toolLog) + 1
            /\ LastCall.outcome \in {"returned", "raised"}
            /\ lastRequest[3].content = function_response)
    /\ (genInFlight > 0 =>
            \A i \in 1..Len(toolLog) : toolLog[i].outcome # "pending")

C10_Witness == pc = "pq152w" /\ genCount = 3 /\ genInFlight = 1

\* the parts of the original response, over all candidates, in encounter order
OriginalParts == Flatten(candidates)

\* the function-call parts among them, in encounter order
RECURSIVE CallParts(_)
CallParts(parts) ==
    IF Len(parts) = 0 THEN <<>>
    ELSE (IF IsFunctionCall(parts[1]) THEN <<parts[1]>> ELSE <<>>)
            \o CallParts(Tail(parts))

\* the response's leading part is a text part
LeadsWithText(r) == Len(r) > 0 /\ Len(r[1]) > 0 /\ r[1][1].kind = "text"

\* the mapping a function call's arguments decode to
Decoded(args) == IF args.isMap THEN args.items ELSE {}

\* the texts of parts, with t in the place of every function call
TextsWith(parts, t) ==
    [i \in 1..Len(parts) |-> IF IsFunctionCall(parts[i]) THEN t ELSE parts[i].text]

\* C11 as stated: when the original response contains exactly one
\* function-call part and the continuation leads with a text, there is
\* exactly one call_tool, with that call's name and decoded arguments, and
\* process_query returns exactly the continuation's text.
C11_ReturnsContinuationText ==
    (/\ pc = "loop182"
     /\ CountCalls(OriginalParts) = 1
     /\ LeadsWithText(response)) =>
        /\ Len(toolLog) = 1
        /\ toolLog[1].name = CallParts(OriginalParts)[1].name
        /\ toolLog[1].args = Decoded(CallParts(OriginalParts)[1].args)
        /\ result = response[1][1].text

\* C11 as amended: when the original response contains exactly one
\* function-call part and the continuation leads with a text, there is
\* exactly one call_tool, with that call's name and decoded arguments, and
\* process_query returns the texts of the original response's text parts
\* with the continuation's text in the place of the function call, joined
\* by newlines: the continuation's text alone only when the original
\* response holds no text part.
C11_ReturnsTextsAndContinuation ==
    (/\ pc = "loop182"
     /\ CountCalls(OriginalParts) = 1
     /\ LeadsWithText(response)) =>
        /\ Len(toolLog) = 1
        /\ toolLog[1].name = CallParts(OriginalParts)[1].name
        /\ toolLog[1].args = Decoded(CallParts(OriginalParts)[1].args)
        /\ result = Join(TextsWith(OriginalParts, response[1][1].text))
        /\ (Len(OriginalParts) = 1 => result = response[1][1].text)

C11_Witness ==
    /\ pc = "loop182"
    /\ CountCalls(OriginalParts) = 1
    /\ LeadsWithText(response)
    /\ Len(OriginalParts) = 2
    /\ result # response[1][1].text

\* C12: when the original response holds only text parts, process_query
\* returns their texts in encounter order joined by newlines, calls no tool
\* and issues no generation request beyond the first.
C12_TextOnlyReturnedAsIs ==
    CountCalls(OriginalParts) = 0 =>
        /\ pc \notin {"pq116", "pq116w", "pq152", "pq152w"}
        /\ (pc = "loop182" =>
                /\ result = Join([i \in 1..Len(OriginalParts) |->
                                    OriginalParts[i].text])
                /\ Len(toolLog) = 0
                /\ genCount = 1)

C12_Witness ==
    /\ pc = "loop182"
    /\ CountCalls(OriginalParts) = 0
    /\ Len(OriginalParts) = 2
    /\ OriginalParts[1].text # OriginalParts[2].text
    /\ result = OriginalParts[1].text \o <<"\n">> \o OriginalParts[2].text

\* C13: chat_loop passes to process_query exactly the stripped lines that
\* precede the first line which, stripped and lowered, is the sentinel, once
\* each and in input order, empty ones included; the loop ends at the
\* sentinel line or with the end of the input, and for no other reason.
C13_PassesLinesBeforeSentinel ==
    /\ Len(passed) <= Len(linesRead)
    /\ \A i \in 1..Len(passed) :
            /\ passed[i] = Strip(linesRead[i])
            /\ Lower(Strip(linesRead[i])) # ExitSentinel
    /\ (pc = "chat_ret" =>
            /\ Len(linesRead) = Len(passed) + 1
            /\ Lower(Strip(linesRead[Len(linesRead)])) = ExitSentinel)
    /\ (pc \in {"pq91", "pq99", "pq102", "pq116", "pq116w", "pq152", "pq152w",
                 "pq163", "loop182", "loop176"} =>
            Len(passed) = Len(linesRead))
    /\ (pc = "chat_raised" => exc = "EOFError")

\* C14: every generation request of a query starts with that query's user
\* turn, holds no other user turn, and holds beyond it only the function
\* call being answered and its result: nothing of an earlier query.
C14_FreshConversationPerQuery ==
    pc \in {"pq99", "pq152w"} =>
        /\ query = passed[Len(passed)]
        /\ Len(lastRequest) >= 1
        /\ lastRequest[1] = UserTurn(query)
        /\ \A i \in 2..Len(lastRequest) : lastRequest[i].role # "user"
        /\ (pc = "pq99" => Len(lastRequest) = 1)
        /\ (pc = "pq152w" =>
                /\ Len(lastRequest) = 3
                /\ lastRequest[2].kind = "function_call"
                /\ lastRequest[2].name = candidates[ci][pi].name
                /\ lastRequest[3].kind = "function_response"
                /\ lastRequest[3].name = LastCall.name)

C14_Witness ==
    /\ pc = "pq152w"
    /\ nQueries = 2
    /\ passed[1] # passed[2]
    /\ lastRequest[1].content = passed[2]

\* a 'title' key occurs in the schema, at any depth
RECURSIVE HasTitle(_)
HasTitle(s) ==
    /\ s.isMap
    /\ \E e \in s.items : e[1] = "title" \/ HasTitle(e[2])

\* C15: what clean_schema returns holds no 'title' key at any depth, for
\* every schema, also one with a property named 'title' or with mappings
\* under keys other than 'properties'.
C15_NoTitleAtAnyDepth ==
    cleanCalls >= 1 => ~HasTitle(schema)

\* C16: clean_schema returns on every schema, and applied to what it
\* returned it changes nothing.
C16_CleanIsIdempotent ==
    /\ [](cleanCalls < MaxCleanCalls => ENABLED CleanSchema185)
    /\ [][cleanCalls >= 1 => schema' = schema]_vars

C16_Witness ==
    /\ cleanCalls = 2
    /\ HasTitle(schemaIn)
    /\ schema # schemaIn
    /\ \E e \in schemaIn.items : e[1] = "properties" /\ HasTitle(e[2])

\* C17: from N descriptors with distinct names, each with a description,
\* convert_mcp_tools_to_gemini returns N groups, the i-th holding exactly
\* one declaration, with the i-th descriptor's name and its description
\* followed by the return-type suffix; it raises only when a description
\* is missing.
C17_OneGroupPerDescriptorInOrder ==
    /\ (pc = "convert_ret" =>
            /\ Len(function_declarations) = Len(tools)
            /\ \A i \in 1..Len(tools) :
                    /\ Len(function_declarations[i]) = 1
                    /\ function_declarations[i][1].name = tools[i].name
                    /\ function_declarations[i][1].description =
                            tools[i].description \o ReturnSuffix)
    /\ (pc = "convert_raised" =>
            \E i \in 1..Len(tools) : tools[i].description = NoDescription)

C17_Witness ==
    /\ pc = "convert_ret"
    /\ Len(tools) = 2
    /\ tools[1].description # tools[2].description
    /\ Len(function_declarations) = 2

\* C18: for k function-call parts in the original response there are never
\* more than k call_tool invocations and 1 + k generation requests, and
\* exactly that many when process_query returns; a function call in a
\* continuation response adds to neither.
C18_OneContinuationPerOriginalCall ==
    pc \in {"pq102", "pq116", "pq116w", "pq152", "pq152w", "pq163", "loop182"} =>
        /\ Len(toolLog) <= CountCalls(OriginalParts)
        /\ genCount <= 1 + CountCalls(OriginalParts)
        /\ (pc \in {"pq163", "loop182"} =>
                /\ Len(toolLog) = CountCalls(OriginalParts)
                /\ genCount = 1 + CountCalls(OriginalParts))

C18_Witness ==
    /\ pc = "loop182"
    /\ Len(candidates) = 2
    /\ CountCalls(OriginalParts) = 2
    /\ fcSeen = 4
    /\ Len(toolLog) = 2

\* C19: arguments that dict() cannot convert do not end the query: the
\* arguments are taken as the empty mapping, call_tool is invoked with the
\* part's name and the empty mapping, and the continuation request for that
\* call is sent with them.
C19_UncoercibleArgsAreEmpty ==
    /\ (pc = "chat_raised" => exc # "TypeError")
    /\ (/\ pc \in {"pq116", "pq116w", "pq152", "pq152w"}
        /\ ~candidates[ci][pi].args.isMap) =>
            /\ tool_name = candidates[ci][pi].name
            /\ tool_args = {}
            /\ (pc # "pq116" =>
                    /\ LastCall.name = candidates[ci][pi].name
                    /\ LastCall.args = {})
            /\ (pc = "pq152w" =>
                    lastRequest[2] = FunctionCallTurn(candidates[ci][pi].name, {}))
    /\ (pc = "pq163" =>
            /\ Len(toolLog) = Len(CallParts(OriginalParts))
            /\ Len(answered) = Len(CallParts(OriginalParts))
            /\ \A i \in 1..Len(toolLog) :
                    ~CallParts(OriginalParts)[i].args.isMap =>
                        /\ toolLog[i].name = CallParts(OriginalParts)[i].name
                        /\ toolLog[i].args = {}
                        /\ answered[i] = CallParts(OriginalParts)[i].name)

C19_Witness ==
    /\ pc = "pq152w"
    /\ ~candidates[ci][pi].args.isMap
    /\ LastCall.args = {}
    /\ lastRequest[2].args = {}

\* C20: every continuation request is exactly three turns: the query's user
\* turn, the function-call turn with the name and arguments of the call
\* being processed, and the tool-result turn with that name and the call's
\* result text; the turns of earlier calls are not in it.
C20_ContinuationIsThreeTurns ==
    pc = "pq152w" =>
        /\ lastRequest =
              <<UserTurn(query),
                FunctionCallTurn(candidates[ci][pi].name,
                                 Decoded(candidates[ci][pi].args)),
                FunctionResponseTurn(candidates[ci][pi].name, function_response)>>
        /\ function_response \in ResultTexts

C20_Witness ==
    /\ pc = "pq152w"
    /\ Len(toolLog) = 2
    /\ toolLog[1].name # toolLog[2].name
    /\ Len(lastRequest) = 3
=============================================================================
